---------------------------- MODULE Spec2Model ----------------------------
(***************************************************************************)
(* Model of the company verification pipeline of the ML service            *)
(* (src/ml-service): verify_company sequences gather_intelligence (four    *)
(* concurrent lookups), analyze_company_sentiment and calculate_risk and   *)
(* builds the response, or ends with "Verification failed".                *)
(*                                                                         *)
(* Conventions.                                                            *)
(*  - A Python str is a sequence of one-character strings; an Optional     *)
(*    value is a record [some, val] (None is some = FALSE).                *)
(*  - A risk score is an integer number of hundredths of a point (the      *)
(*    float sums of calculate_risk are exact on every input: all of its    *)
(*    contributions are multiples of 0.5).  A probability, a sentiment     *)
(*    score and a confidence are integers in units of 1/10000.             *)
(*  - Every variable is a function of the request id, so that several      *)
(*    requests can be in flight in one behaviour.                          *)
(***************************************************************************)
EXTENDS Integers, Sequences, FiniteSets, TLC

VARIABLES
    started,      \* lifespan has initialised the three global services
    request,      \* request[r]: the CompanyVerificationRequest of r
    pc,           \* pc[r]: where verify_company is for r
    task,         \* task[r][l]: the task asyncio.gather runs for lookup l
    web_intel,    \* web_intel[r]: what gather_intelligence returned
    sentiment,    \* sentiment[r]: what analyze_company_sentiment returned
    risk_result,  \* risk_result[r]: what calculate_risk returned
    stages,       \* stages[r]: the stages run so far, with their arguments
    sent,         \* sent[r]: what the caller of r has been sent
    classified,   \* classified[r]: the calls of analyze_text made for r
    abandoned     \* abandoned[r]: the caller of r has disconnected

vars == <<started, request, pc, task, web_intel, sentiment, risk_result,
          stages, sent, classified, abandoned>>

---------------------------------------------------------------------------
(* Optional values and Python truthiness *)

NoneStr == [some |-> FALSE, val |-> <<>>]
NoneInt == [some |-> FALSE, val |-> 0]
Some(v) == [some |-> TRUE, val |-> v]

\* `if x:` on an Optional[str]: None and "" are falsy.
Truthy(x) == x.some /\ Len(x.val) > 0

\* `if x:` on an Optional[HttpUrl]: a Url object is always truthy.
TruthyUrl(x) == x.some

\* `if x and ...` on an Optional[int]: None and 0 are falsy.
TruthyInt(x) == x.some /\ x.val # 0

---------------------------------------------------------------------------
(* str.strip and the re.search of check_handelsregister *)

\* The shortest digit run the register pattern accepts: \d{6,}.
RegisterDigits == 6

Digits == {"0", "1", "2", "3", "4", "5", "6", "7", "8", "9"}
Whitespace == {" ", "\t", "\n"}

\* re.IGNORECASE on the letters the pattern names.
Fold(c) ==
    CASE c = "h" -> "H" [] c = "r" -> "R" [] c = "b" -> "B" [] c = "a" -> "A"
      [] c = "g" -> "G" [] c = "m" -> "M" [] OTHER -> c

RECURSIVE LStrip(_)
LStrip(s) ==
    IF s = <<>> THEN s
    ELSE IF Head(s) \in Whitespace THEN LStrip(Tail(s)) ELSE s

RECURSIVE RStrip(_)
RStrip(s) ==
    IF s = <<>> THEN s
    ELSE IF s[Len(s)] \in Whitespace THEN RStrip(SubSeq(s, 1, Len(s) - 1)) ELSE s

Strip(s) == RStrip(LStrip(s))

\* The literal `word` occurs in s at position i, ignoring case.
LiteralAt(s, i, word) ==
    /\ i + Len(word) - 1 <= Len(s)
    /\ \A k \in 1..Len(word) : Fold(s[i + k - 1]) = Fold(word[k])

\* \d{6,} matches at position i: six digits in a row start there.
DigitRunAt(s, i) ==
    /\ i + RegisterDigits - 1 <= Len(s)
    /\ \A k \in 0..(RegisterDigits - 1) : s[i + k] \in Digits

\* re.search(r'(HRB|HRA|GmbH|\d{6,})', s, re.IGNORECASE) is not None
RegisterPattern(s) ==
    \E i \in 1..Len(s) :
        \/ LiteralAt(s, i, <<"H", "R", "B">>)
        \/ LiteralAt(s, i, <<"H", "R", "A">>)
        \/ LiteralAt(s, i, <<"G", "m", "b", "H">>)
        \/ DigitRunAt(s, i)

---------------------------------------------------------------------------
(* CompanyVerificationRequest *)

\* Company numbers: None, "", " ", "HRB 1", "12345", "123456".
CompanyNumbers ==
    { NoneStr, Some(<<>>), Some(<<" ">>),
      Some(<<"H", "R", "B", " ", "1">>),
      Some(<<"1", "2", "3", "4", "5">>),
      Some(<<" ", "1", "2", "3", "4", "5", "6">>) }

VatNumbers == { NoneStr, Some(<<"D", "E", "1">>) }

WebsiteUrls == { NoneStr, Some(<<"w">>) }

LinkedinUrls == { NoneStr, Some(<<"l">>) }

\* Descriptions: None, "", whitespace only, and a text the model classifies.
Descriptions == { NoneStr, Some(<<>>), Some(<<" ", " ">>), Some(<<"o", "k">>) }

CompanyNames == { <<"A", "c", "m", "e">> }

CompanyVerificationRequest(ids) ==
    [ registration_id : ids,
      company_name : CompanyNames,
      company_number : CompanyNumbers,
      vat_number : VatNumbers,
      website_url : WebsiteUrls,
      linkedin_url : LinkedinUrls,
      business_description : Descriptions ]

---------------------------------------------------------------------------
(* WebIntelligenceService: the four lookups *)

Lookups == {"register", "website", "linkedin", "news"}

\* What a lookup coroutine ends with: a bool, a tuple, or a raised exception
\* (which asyncio.gather(return_exceptions=True) hands back as the result).
BoolResult(b) == [type |-> "bool", first |-> b, second |-> NoneInt]
TupleResult(a, b) == [type |-> "tuple", first |-> a, second |-> b]
ExceptionResult == [type |-> "exception", first |-> FALSE, second |-> NoneInt]
NoResult == [type |-> "pending", first |-> FALSE, second |-> NoneInt]

UnknownAge == <<"U", "n", "k", "n", "o", "w", "n">>

\* The mock follower count of check_linkedin.
MockFollowers == 500

\* How the world can answer a lookup.  "absent": the argument is falsy and
\* nothing is attempted; "200"/"404": the HTTP status; "timeout": the 10 s
\* ClientTimeout fires (asyncio.TimeoutError); "error": an exception inside
\* the try block; "escaped": an exception that leaves the coroutine (raised
\* outside the try block or inside an except handler).
Outcomes(l, req) ==
    CASE l = "register" ->
            IF Truthy(req.company_number) THEN {"ok", "error", "escaped"}
            ELSE {"absent"}
      [] l = "website" ->
            IF TruthyUrl(req.website_url)
            THEN {"200", "404", "timeout", "error", "escaped"}
            ELSE {"absent"}
      [] l = "linkedin" ->
            IF TruthyUrl(req.linkedin_url)
            THEN {"200", "404", "timeout", "error", "escaped"}
            ELSE {"absent"}
      [] l = "news" -> {"ok", "error", "escaped"}

\* The lookups that await network I/O before they return.
AwaitsIO(l, req) ==
    \/ l = "website" /\ TruthyUrl(req.website_url)
    \/ l = "linkedin" /\ TruthyUrl(req.linkedin_url)

check_handelsregister(company_number, outcome) ==
    IF ~Truthy(company_number) THEN BoolResult(FALSE)
    ELSE CASE outcome = "ok" ->
                  BoolResult(RegisterPattern(Strip(company_number.val)))
           [] outcome = "error" -> BoolResult(FALSE)
           [] OTHER -> ExceptionResult

check_website(website_url, outcome) ==
    IF ~TruthyUrl(website_url) THEN TupleResult(FALSE, NoneStr)
    ELSE CASE outcome = "200" -> TupleResult(TRUE, Some(UnknownAge))
           [] outcome = "404" -> TupleResult(FALSE, NoneStr)
           [] outcome = "timeout" -> TupleResult(FALSE, NoneStr)
           [] outcome = "error" -> TupleResult(FALSE, NoneStr)
           [] OTHER -> ExceptionResult

check_linkedin(linkedin_url, outcome) ==
    IF ~TruthyUrl(linkedin_url) THEN TupleResult(FALSE, NoneInt)
    ELSE CASE outcome = "200" -> TupleResult(TRUE, Some(MockFollowers))
           [] outcome = "404" -> TupleResult(FALSE, NoneInt)
           [] outcome = "timeout" -> TupleResult(FALSE, NoneInt)
           [] outcome = "error" -> TupleResult(FALSE, NoneInt)
           [] OTHER -> ExceptionResult

search_news(company_name, outcome) ==
    CASE outcome = "ok" -> TupleResult(0, NoneInt)
      [] outcome = "error" -> TupleResult(0, NoneInt)
      [] OTHER -> ExceptionResult

\* The coroutine gather_intelligence creates for lookup l, run to its end.
LookupResult(l, req, outcome) ==
    CASE l = "register" -> check_handelsregister(req.company_number, outcome)
      [] l = "website" -> check_website(req.website_url, outcome)
      [] l = "linkedin" -> check_linkedin(req.linkedin_url, outcome)
      [] l = "news" -> search_news(req.company_name, outcome)

---------------------------------------------------------------------------
(* WebIntelligenceService.gather_intelligence *)

\* The lookups asyncio.gather turns into tasks before it is awaited.
GatheredLookups == Lookups

\* GatherReady as asyncio.wait(..., return_when=FIRST_COMPLETED) would be.
GatherReadyFirstCompleted(tasks) ==
    \E l \in GatheredLookups : tasks[l].status = "done"

\* asyncio.gather resolves once every task it was given is done.
GatherReady(tasks) == \A l \in GatheredLookups : tasks[l].status = "done"

\* OrDefault without the isinstance check: the exception object is kept.
OrDefaultKeepsException(result, default) == result

\* `x = default if isinstance(x, Exception) else x`
OrDefault(result, default) ==
    IF result.type = "exception" THEN default ELSE result

\* `x[i] if isinstance(x, tuple) else default`
TupleItem(result, i, default) ==
    IF result.type = "tuple"
    THEN (IF i = 0 THEN result.first ELSE result.second)
    ELSE default

\* The WebIntelligence built from the four results of asyncio.gather.
WebIntelligence(results) ==
    LET handelsregister_match == OrDefault(results["register"], BoolResult(FALSE))
        website_data == OrDefault(results["website"], TupleResult(FALSE, NoneStr))
        linkedin_data == OrDefault(results["linkedin"], TupleResult(FALSE, NoneInt))
        news_data == OrDefault(results["news"], TupleResult(0, NoneInt))
    IN  [ companies_house_match |-> handelsregister_match.first,
          website_active |-> TupleItem(website_data, 0, FALSE),
          website_age |-> TupleItem(website_data, 1, NoneStr),
          linkedin_verified |-> TupleItem(linkedin_data, 0, FALSE),
          linkedin_followers |-> TupleItem(linkedin_data, 1, NoneInt),
          news_articles_found |-> TupleItem(news_data, 0, 0),
          recent_news_date |-> TupleItem(news_data, 1, NoneInt) ]

NoWebIntelligence ==
    [ companies_house_match |-> FALSE, website_active |-> FALSE,
      website_age |-> NoneStr, linkedin_verified |-> FALSE,
      linkedin_followers |-> NoneInt, news_articles_found |-> 0,
      recent_news_date |-> NoneInt ]

---------------------------------------------------------------------------
(* SentimentAnalyzer *)

\* What the loaded model can answer for a text: the softmax entries
\* predictions[0][0] and predictions[0][1], or an exception (the tokenizer
\* or the inference raises).
ModelOutputs ==
    { [raises |-> FALSE, negative |-> 1000, positive |-> 8000],
      [raises |-> FALSE, negative |-> 7000, positive |-> 2000],
      [raises |-> FALSE, negative |-> 3000, positive |-> 4000],
      [raises |-> FALSE, negative |-> 2000, positive |-> 6000],
      [raises |-> TRUE, negative |-> 0, positive |-> 0] }

Max(a, b) == IF a >= b THEN a ELSE b

Raised == [raised |-> TRUE]

\* analyze_text runs the tokenizer and the model on text: not for
\* `not text or len(text.strip()) == 0`.
Infers(text) == ~(Len(text) = 0 \/ Len(Strip(text)) = 0)

\* The answer that stands for no inference.
NoOutput == [raises |-> FALSE, negative |-> 5000, positive |-> 5000]

analyze_text(text, output) ==
    IF ~Infers(text)
    THEN [ raised |-> FALSE, sentiment |-> "NEUTRAL", score |-> 5000,
           positive_score |-> 5000, negative_score |-> 5000 ]
    ELSE IF output.raises THEN Raised
    ELSE [ raised |-> FALSE,
           sentiment |-> IF output.positive > 6000 THEN "POSITIVE"
                         ELSE IF output.negative > 6000 THEN "NEGATIVE"
                         ELSE "NEUTRAL",
           score |-> Max(output.positive, output.negative),
           positive_score |-> output.positive,
           negative_score |-> output.negative ]

MockReviewSuffix ==
    <<
       " ", "i", "s", " ", "a", " ", "l", "e", "g", "i", "t", "i", "m",
       "a", "t", "e", " ", "c", "o", "m", "p", "a", "n", "y", " ", "w",
       "i", "t", "h", " ", "a", "n", " ", "a", "c", "t", "i", "v", "e",
       " ", "w", "e", "b", " ", "p", "r", "e", "s", "e", "n", "c", "e" >>

RECURSIVE Sum(_)
Sum(seq) == IF seq = <<>> THEN 0 ELSE Head(seq) + Sum(Tail(seq))

SentimentSource(source, sentiment_type, rating, review_count) ==
    [ source |-> source, sentiment |-> sentiment_type, rating |-> rating,
      review_count |-> review_count ]

SentimentAnalysis(overall_sentiment, sentiment_score, sources) ==
    [ raised |-> FALSE, overall_sentiment |-> overall_sentiment,
      sentiment_score |-> sentiment_score, sources |-> sources ]

\* HasPresence with `or` for `and`.
HasPresenceEither(wi) == wi.companies_house_match \/ wi.website_active

\* `if web_intel.companies_house_match and web_intel.website_active`
HasPresence(wi) == wi.companies_house_match /\ wi.website_active

\* One call of analyze_text: its text, whether it ran the model, and what
\* the model answered if it did.
ClassifyCall(text, output) ==
    [ text |-> text, inferred |-> Infers(text),
      output |-> IF Infers(text) THEN output ELSE NoOutput ]

\* The calls of analyze_text that analyze_company_sentiment makes, in order:
\* the description if there is one, then the mock review text if the company
\* has a web presence, unless the first call raised.
analyze_text_calls(company_name, business_description, wi, out1, out2) ==
    LET has_description == Truthy(business_description)
        calls1 ==
            IF has_description
            THEN << ClassifyCall(business_description.val, out1) >> ELSE << >>
        first_raised ==
            has_description /\ analyze_text(business_description.val, out1).raised
    IN  IF HasPresence(wi) /\ ~first_raised
        THEN Append(calls1, ClassifyCall(company_name \o MockReviewSuffix, out2))
        ELSE calls1

\* OverallSentiment with `>=` and `<=` for `>` and `<`.
OverallSentimentInclusive(avg_score) ==
    IF avg_score >= 6000 THEN "POSITIVE"
    ELSE IF avg_score <= 4000 THEN "NEGATIVE"
    ELSE "NEUTRAL"

\* Determine overall sentiment
OverallSentiment(avg_score) ==
    IF avg_score > 6000 THEN "POSITIVE"
    ELSE IF avg_score < 4000 THEN "NEGATIVE"
    ELSE "NEUTRAL"

\* out1 and out2 are the model's answers to the description and to the mock
\* review text, if it is asked.
analyze_company_sentiment(company_name, business_description, wi, out1, out2) ==
    LET has_description == Truthy(business_description)
        desc_sentiment ==
            IF has_description
            THEN analyze_text(business_description.val, out1) ELSE Raised
        has_presence == HasPresence(wi)
        review_sentiment ==
            IF has_presence
            THEN analyze_text(company_name \o MockReviewSuffix, out2) ELSE Raised
        sources1 ==
            IF has_description
            THEN << SentimentSource("Business Description",
                                    desc_sentiment.sentiment, NoneInt, NoneInt) >>
            ELSE << >>
        scores1 ==
            IF has_description THEN << desc_sentiment.positive_score >> ELSE << >>
        sources2 ==
            IF has_presence
            THEN Append(sources1,
                    SentimentSource("Web Presence Analysis",
                        review_sentiment.sentiment,
                        IF review_sentiment.sentiment = "POSITIVE"
                        THEN Some(4) ELSE Some(3),
                        IF wi.news_articles_found > 0
                        THEN Some(wi.news_articles_found) ELSE Some(1)))
            ELSE sources1
        scores2 ==
            IF has_presence
            THEN Append(scores1, review_sentiment.positive_score) ELSE scores1
        avg_score == Sum(scores2) \div Len(scores2)
    IN  IF has_description /\ desc_sentiment.raised THEN Raised
        ELSE IF has_presence /\ review_sentiment.raised THEN Raised
        ELSE IF Len(scores2) = 0 THEN SentimentAnalysis("NEUTRAL", 5000, << >>)
        ELSE SentimentAnalysis(OverallSentiment(avg_score), avg_score, sources2)

NoSentiment == SentimentAnalysis("NEUTRAL", 0, << >>)

---------------------------------------------------------------------------
(* RiskScorer *)

\* Risk weights, in points.
WEIGHTS ==
    [ business_register |-> 25, website |-> 15, linkedin |-> 10,
      news_presence |-> 10, sentiment |-> 25, information_completeness |-> 15 ]

\* A weight in hundredths of a point.
Points(w) == w * 100

\* Partial with the factor taken as a whole number (`weight * 5`).
PartialAsWhole(w, tenths) == w * tenths * 100

\* `weight * 0.5`, `weight * 0.7`, `weight * 0.3`: the factor is in tenths.
Partial(w, tenths) == w * tenths * 10

\* round(x, n): to the nearest multiple of unit, ties to the even one.
Round(x, unit) ==
    LET q == x \div unit
        rem == x % unit
    IN  IF 2 * rem > unit \/ (2 * rem = unit /\ q % 2 = 1)
        THEN (q + 1) * unit ELSE q * unit

\* One recommendation string: the mark it starts with, its text, and the
\* values formatted into it.
Rec(mark, text, args) == [mark |-> mark, text |-> text, args |-> args]

\* What one rule of calculate_risk does: the points it adds to risk_score,
\* the flags and the recommendations it appends.
Rule(points, flags, recommendations) ==
    [points |-> points, flags |-> flags, recommendations |-> recommendations]

\* RegisterRule without `flags.append("BUSINESS_REGISTER_NOT_FOUND")`.
RegisterRuleNoFlag(wi) ==
    IF ~wi.companies_house_match
    THEN Rule(Points(WEIGHTS.business_register), <<>>,
              <<Rec("warn", "Company not found in business register", <<>>)>>)
    ELSE Rule(0, <<>>,
              <<Rec("ok", "Company verified in official business register", <<>>)>>)

\* 1. Business Register verification
RegisterRule(wi) ==
    IF ~wi.companies_house_match
    THEN Rule(Points(WEIGHTS.business_register),
              <<"BUSINESS_REGISTER_NOT_FOUND">>,
              <<Rec("warn", "Company not found in business register", <<>>)>>)
    ELSE Rule(0, <<>>,
              <<Rec("ok", "Company verified in official business register", <<>>)>>)

\* 2. Website presence
WebsiteRule(wi) ==
    IF ~wi.website_active
    THEN Rule(Points(WEIGHTS.website), <<"WEBSITE_UNREACHABLE">>,
              <<Rec("warn", "Website URL is not accessible", <<>>)>>)
    ELSE Rule(0, <<>>, <<Rec("ok", "Active website found", <<>>)>>)

\* LinkedinRule without the `* 0.5`: the full weight.
LinkedinRuleFullWeight(wi) ==
    IF ~wi.linkedin_verified
    THEN Rule(Points(WEIGHTS.linkedin), <<"NO_LINKEDIN_PRESENCE">>,
              <<Rec("warn", "No LinkedIn company page found", <<>>)>>)
    ELSE Rule(0, <<>>,
              <<Rec("info", "LinkedIn page found (limited followers)", <<>>)>>)

\* 3. LinkedIn presence
LinkedinRule(wi) ==
    IF ~wi.linkedin_verified
    THEN Rule(Partial(WEIGHTS.linkedin, 5), <<"NO_LINKEDIN_PRESENCE">>,
              <<Rec("warn", "No LinkedIn company page found", <<>>)>>)
    ELSE IF TruthyInt(wi.linkedin_followers) /\ wi.linkedin_followers.val > 100
    THEN Rule(0, <<>>,
              <<Rec("ok", "LinkedIn page with followers",
                    <<wi.linkedin_followers.val>>)>>)
    ELSE Rule(0, <<>>,
              <<Rec("info", "LinkedIn page found (limited followers)", <<>>)>>)

\* NewsRule without `flags.append("NO_WEB_MENTIONS")`.
NewsRuleNoFlag(wi) ==
    IF wi.news_articles_found = 0
    THEN Rule(Partial(WEIGHTS.news_presence, 7), <<>>,
              <<Rec("info", "No news articles found (may be new company)", <<>>)>>)
    ELSE Rule(0, <<>>,
              <<Rec("ok", "Found news articles", <<wi.news_articles_found>>)>>)

\* 4. News/Web mentions
NewsRule(wi) ==
    IF wi.news_articles_found = 0
    THEN Rule(Partial(WEIGHTS.news_presence, 7), <<"NO_WEB_MENTIONS">>,
              <<Rec("info", "No news articles found (may be new company)", <<>>)>>)
    ELSE Rule(0, <<>>,
              <<Rec("ok", "Found news articles", <<wi.news_articles_found>>)>>)

\* SentimentRule appending the flag for NEUTRAL sentiment as well.
SentimentRuleNeutralFlagged(sa) ==
    IF sa.overall_sentiment = "NEGATIVE"
    THEN Rule(Points(WEIGHTS.sentiment), <<"NEGATIVE_SENTIMENT">>,
              <<Rec("warn", "Negative sentiment detected",
                    <<Round(sa.sentiment_score, 100)>>)>>)
    ELSE IF sa.overall_sentiment = "NEUTRAL"
    THEN Rule(Partial(WEIGHTS.sentiment, 3), <<"NEGATIVE_SENTIMENT">>,
              <<Rec("info", "Neutral sentiment", <<Round(sa.sentiment_score, 100)>>)>>)
    ELSE Rule(0, <<>>,
              <<Rec("ok", "Positive sentiment detected",
                    <<Round(sa.sentiment_score, 100)>>)>>)

\* 5. Sentiment analysis
SentimentRule(sa) ==
    IF sa.overall_sentiment = "NEGATIVE"
    THEN Rule(Points(WEIGHTS.sentiment), <<"NEGATIVE_SENTIMENT">>,
              <<Rec("warn", "Negative sentiment detected",
                    <<Round(sa.sentiment_score, 100)>>)>>)
    ELSE IF sa.overall_sentiment = "NEUTRAL"
    THEN Rule(Partial(WEIGHTS.sentiment, 3), <<>>,
              <<Rec("info", "Neutral sentiment", <<Round(sa.sentiment_score, 100)>>)>>)
    ELSE Rule(0, <<>>,
              <<Rec("ok", "Positive sentiment detected",
                    <<Round(sa.sentiment_score, 100)>>)>>)

\* company_number, vat, website, linkedin, description
total_fields == 5

Count(b) == IF b THEN 1 ELSE 0

provided_fields(req) ==
    Count(Truthy(req.company_number)) + Count(Truthy(req.vat_number))
      + Count(TruthyUrl(req.website_url)) + Count(TruthyUrl(req.linkedin_url))
      + Count(Truthy(req.business_description))

\* provided_fields / total_fields, in units of 1/10000.
completeness_ratio(req) == (provided_fields(req) * 10000) \div total_fields

\* CompletenessRule with `<= 0.6` for `< 0.6`.
CompletenessRuleInclusive(req) ==
    IF completeness_ratio(req) <= 6000
    THEN Rule((WEIGHTS.information_completeness * (10000 - completeness_ratio(req)))
                  \div 100,
              <<"INCOMPLETE_INFORMATION">>,
              <<Rec("warn", "Limited information provided",
                    <<provided_fields(req), total_fields>>)>>)
    ELSE Rule(0, <<>>,
              <<Rec("ok", "Complete information provided",
                    <<provided_fields(req), total_fields>>)>>)

\* 6. Information completeness
CompletenessRule(req) ==
    IF completeness_ratio(req) < 6000
    THEN Rule((WEIGHTS.information_completeness * (10000 - completeness_ratio(req)))
                  \div 100,
              <<"INCOMPLETE_INFORMATION">>,
              <<Rec("warn", "Limited information provided",
                    <<provided_fields(req), total_fields>>)>>)
    ELSE Rule(0, <<>>,
              <<Rec("ok", "Complete information provided",
                    <<provided_fields(req), total_fields>>)>>)

\* The six rules in the order calculate_risk evaluates them.
Rules(wi, sa, req) ==
    << RegisterRule(wi), WebsiteRule(wi), LinkedinRule(wi), NewsRule(wi),
       SentimentRule(sa), CompletenessRule(req) >>

RECURSIVE SumPoints(_)
SumPoints(rules) ==
    IF rules = <<>> THEN 0 ELSE Head(rules).points + SumPoints(Tail(rules))

RECURSIVE AllFlags(_)
AllFlags(rules) ==
    IF rules = <<>> THEN <<>> ELSE Head(rules).flags \o AllFlags(Tail(rules))

RECURSIVE AllRecommendations(_)
AllRecommendations(rules) ==
    IF rules = <<>> THEN <<>>
    ELSE Head(rules).recommendations \o AllRecommendations(Tail(rules))

\* RiskLevel with `<` for `<=`.
RiskLevelStrict(risk_score) ==
    IF risk_score < 3000 THEN "LOW"
    ELSE IF risk_score < 6000 THEN "MEDIUM"
    ELSE "HIGH"

\* Determine risk level (from the score before it is rounded).
RiskLevel(risk_score) ==
    IF risk_score <= 3000 THEN "LOW"
    ELSE IF risk_score <= 6000 THEN "MEDIUM"
    ELSE "HIGH"

\* FinalRecommendation without the `elif`: MEDIUM falls through to LOW.
FinalRecommendationNoMedium(risk_level) ==
    IF risk_level = "HIGH" THEN Rec("stop", "RECOMMEND MANUAL VERIFICATION", <<>>)
    ELSE Rec("ok", "Low risk - likely legitimate company", <<>>)

\* Add final recommendation
FinalRecommendation(risk_level) ==
    IF risk_level = "HIGH" THEN Rec("stop", "RECOMMEND MANUAL VERIFICATION", <<>>)
    ELSE IF risk_level = "MEDIUM"
    THEN Rec("warn", "Review carefully before approval", <<>>)
    ELSE Rec("ok", "Low risk - likely legitimate company", <<>>)

\* calculate_confidence without the completeness factor: the mean of three.
calculate_confidenceThreeFactors(wi, sa, ratio) ==
    LET confidence_factors ==
            << IF wi.companies_house_match THEN 9000 ELSE 5000,
               IF wi.website_active THEN 8000 ELSE 4000,
               IF Len(sa.sources) > 0 THEN 8500 ELSE 5000 >>
    IN  Sum(confidence_factors) \div Len(confidence_factors)

\* _calculate_confidence: the average of the four factors, in 1/10000.
calculate_confidence(wi, sa, ratio) ==
    LET confidence_factors ==
            << IF wi.companies_house_match THEN 9000 ELSE 5000,
               IF wi.website_active THEN 8000 ELSE 4000,
               IF Len(sa.sources) > 0 THEN 8500 ELSE 5000,
               ratio >>
    IN  Sum(confidence_factors) \div Len(confidence_factors)

calculate_risk(wi, sa, req) ==
    LET rules == Rules(wi, sa, req)
        risk_score == SumPoints(rules)
        risk_level == RiskLevel(risk_score)
        confidence == calculate_confidence(wi, sa, completeness_ratio(req))
    IN  [ score |-> Round(risk_score, 10),
          level |-> risk_level,
          flags |-> AllFlags(rules),
          recommendations |->
              Append(AllRecommendations(rules), FinalRecommendation(risk_level)),
          confidence |-> Round(confidence, 100) ]

NoRiskResult ==
    [ score |-> 0, level |-> "LOW", flags |-> <<>>, recommendations |-> <<>>,
      confidence |-> 0 ]

---------------------------------------------------------------------------
(* main.py: lifespan and verify_company *)

\* An entry of stages[r]: a stage of verify_company being called, returning
\* or raising, with the WebIntelligence it was given (call) or gave (return).
StageEvent(stage, event, wi) == [stage |-> stage, event |-> event, web_intel |-> wi]

CompanyVerificationResponse(req, risk, wi, sa) ==
    [ registration_id |-> req.registration_id,
      overall_risk_score |-> risk.score,
      risk_level |-> risk.level,
      web_intelligence |-> wi,
      sentiment_analysis |-> sa,
      risk_flags |-> risk.flags,
      recommendations |-> risk.recommendations,
      confidence |-> risk.confidence ]

\* What the caller is sent: the 200 response with its body, or the
\* HTTPException of the except clause.
Report(body) ==
    [kind |-> "report", status_code |-> 200, detail |-> <<>>, body |-> <<body>>]

Failure(message) ==
    [ kind |-> "failure", status_code |-> 500,
      detail |-> <<"Verification failed: ", message>>, body |-> <<>> ]

ScheduledTask == [status |-> "scheduled", outcome |-> "pending", result |-> NoResult]
CreatedTask == [status |-> "created", outcome |-> "pending", result |-> NoResult]
DoneTask(outcome, result) == [status |-> "done", outcome |-> outcome, result |-> result]

Results(tasks) == [l \in Lookups |-> tasks[l].result]

\* SentimentArgs taking the WebIntelligence from an attribute of the shared
\* service, which holds what the first request past its gather stage wrote.
SentimentArgsSharedIntel(r) ==
    [ company_name |-> request[r].company_name,
      business_description |-> request[r].business_description,
      web_intel |->
          web_intel[CHOOSE q \in DOMAIN pc : pc[q] \notin {"idle", "gathering"}] ]

\* The arguments verify_company passes to analyze_company_sentiment.
SentimentArgs(r) ==
    [ company_name |-> request[r].company_name,
      business_description |-> request[r].business_description,
      web_intel |-> web_intel[r] ]

\* RiskArgs with a fresh WebIntelligence instead of the gathered one.
RiskArgsFreshIntel(r) ==
    [web_intel |-> NoWebIntelligence, sentiment |-> sentiment[r], request |-> request[r]]

\* The arguments verify_company passes to calculate_risk.
RiskArgs(r) ==
    [web_intel |-> web_intel[r], sentiment |-> sentiment[r], request |-> request[r]]

\* lifespan: the services are created and the model loaded before the
\* application accepts a request.
Lifespan ==
    /\ ~started
    /\ started' = TRUE
    /\ UNCHANGED <<request, pc, task, web_intel, sentiment, risk_result,
                   stages, sent, classified, abandoned>>

\* verify_company up to its first suspension: gather_intelligence creates
\* the four coroutines and asyncio.gather schedules them as tasks.
VerifyCompany(r) ==
    /\ started
    /\ pc[r] = "idle"
    /\ pc' = [pc EXCEPT ![r] = "gathering"]
    /\ task' = [task EXCEPT ![r] =
                   [l \in Lookups |->
                       IF l \in GatheredLookups THEN ScheduledTask ELSE CreatedTask]]
    /\ stages' = [stages EXCEPT ![r] =
                   Append(@, StageEvent("gather", "call", NoWebIntelligence))]
    /\ UNCHANGED <<started, request, web_intel, sentiment, risk_result,
                   sent, classified, abandoned>>

\* The event loop runs a scheduled task to its first suspension: to its end
\* for a lookup that awaits nothing, to the HTTP request otherwise.
RunLookup(r, l) ==
    /\ pc[r] = "gathering"
    /\ task[r][l].status = "scheduled"
    /\ IF AwaitsIO(l, request[r])
       THEN task' = [task EXCEPT ![r][l].status = "waiting"]
       ELSE \E o \in Outcomes(l, request[r]) :
               task' = [task EXCEPT ![r][l] =
                           DoneTask(o, LookupResult(l, request[r], o))]
    /\ UNCHANGED <<started, request, pc, web_intel, sentiment, risk_result,
                   stages, sent, classified, abandoned>>

\* The HTTP request of a waiting lookup is answered, fails or times out.
CompleteIO(r, l) ==
    /\ pc[r] = "gathering"
    /\ task[r][l].status = "waiting"
    /\ \E o \in Outcomes(l, request[r]) :
           task' = [task EXCEPT ![r][l] =
                       DoneTask(o, LookupResult(l, request[r], o))]
    /\ UNCHANGED <<started, request, pc, web_intel, sentiment, risk_result,
                   stages, sent, classified, abandoned>>

\* HandleException substituting a neutral sentiment and carrying on with the
\* risk stage instead of raising.
HandleExceptionCarriesOn(r, events, message) ==
    /\ sentiment' = [sentiment EXCEPT ![r] = SentimentAnalysis("NEUTRAL", 5000, <<>>)]
    /\ stages' = [stages EXCEPT ![r] = @ \o events]
    /\ pc' = [pc EXCEPT ![r] = "risk"]
    /\ UNCHANGED <<started, request, task, web_intel, risk_result, sent,
                   abandoned>>

\* HandleException printing the error and raising nothing.
HandleExceptionSilent(r, events, message) ==
    /\ stages' = [stages EXCEPT ![r] = @ \o events]
    /\ pc' = [pc EXCEPT ![r] = "done"]
    /\ UNCHANGED <<started, request, task, web_intel, sentiment,
                   risk_result, sent, abandoned>>

\* `except Exception as e: raise HTTPException(500, "Verification failed: ...")`
\* events: what the failing stage did before the handler ran.
HandleException(r, events, message) ==
    /\ sent' = [sent EXCEPT ![r] = Append(@, Failure(message))]
    /\ stages' = [stages EXCEPT ![r] = @ \o events]
    /\ pc' = [pc EXCEPT ![r] = "done"]
    /\ UNCHANGED <<started, request, task, web_intel, sentiment,
                   risk_result, abandoned>>

\* pydantic accepts the companies_house_match it is given: a bool, not an
\* exception object.
ValidWebIntelligence(results) ==
    OrDefault(results["register"], BoolResult(FALSE)).type = "bool"

\* asyncio.gather resolves and gather_intelligence builds the WebIntelligence
\* and returns it.
GatherReturn(r) ==
    /\ pc[r] = "gathering"
    /\ GatherReady(task[r])
    /\ IF ValidWebIntelligence(Results(task[r]))
       THEN /\ web_intel' = [web_intel EXCEPT ![r] = WebIntelligence(Results(task[r]))]
            /\ stages' = [stages EXCEPT ![r] =
                   Append(@, StageEvent("gather", "return",
                                        WebIntelligence(Results(task[r]))))]
            /\ pc' = [pc EXCEPT ![r] = "sentiment"]
            /\ UNCHANGED <<started, request, task, sentiment, risk_result,
                           sent, classified, abandoned>>
       ELSE /\ HandleException(r,
                   <<StageEvent("gather", "raise", NoWebIntelligence)>>,
                   "validation error")
            /\ UNCHANGED classified

\* Step 2: analyze_company_sentiment, which either returns or raises what
\* the model raised.
AnalyzeSentiment(r) ==
    /\ pc[r] = "sentiment"
    /\ \E out1 \in ModelOutputs, out2 \in ModelOutputs :
          LET args == SentimentArgs(r)
              sa == analyze_company_sentiment(args.company_name,
                        args.business_description, args.web_intel, out1, out2)
              calls == analyze_text_calls(args.company_name,
                        args.business_description, args.web_intel, out1, out2)
          IN  /\ classified' = [classified EXCEPT ![r] = @ \o calls]
              /\ \/ /\ ~sa.raised
                    /\ sentiment' = [sentiment EXCEPT ![r] = sa]
                    /\ stages' = [stages EXCEPT ![r] =
                           @ \o << StageEvent("sentiment", "call", args.web_intel),
                                   StageEvent("sentiment", "return",
                                              NoWebIntelligence) >>]
                    /\ pc' = [pc EXCEPT ![r] = "risk"]
                    /\ UNCHANGED <<started, request, task, web_intel,
                                   risk_result, sent, abandoned>>
                 \/ /\ sa.raised
                    /\ HandleException(r,
                           << StageEvent("sentiment", "call", args.web_intel),
                              StageEvent("sentiment", "raise", NoWebIntelligence) >>,
                           "inference error")

\* Step 3: calculate_risk.
CalculateRisk(r) ==
    /\ pc[r] = "risk"
    /\ LET args == RiskArgs(r)
       IN  /\ risk_result' = [risk_result EXCEPT ![r] =
                  calculate_risk(args.web_intel, args.sentiment, args.request)]
           /\ stages' = [stages EXCEPT ![r] =
                  @ \o << StageEvent("risk", "call", args.web_intel),
                          StageEvent("risk", "return", NoWebIntelligence) >>]
    /\ pc' = [pc EXCEPT ![r] = "response"]
    /\ UNCHANGED <<started, request, task, web_intel, sentiment, sent,
                   classified, abandoned>>

\* Build response and return it.
BuildResponse(r) ==
    /\ pc[r] = "response"
    /\ sent' = [sent EXCEPT ![r] =
           Append(@, Report(CompanyVerificationResponse(request[r], risk_result[r],
                                                        web_intel[r], sentiment[r])))]
    /\ stages' = [stages EXCEPT ![r] =
           Append(@, StageEvent("response", "return", web_intel[r]))]
    /\ pc' = [pc EXCEPT ![r] = "done"]
    /\ UNCHANGED <<started, request, task, web_intel, sentiment,
                   risk_result, classified, abandoned>>

---------------------------------------------------------------------------
(* The pipeline for one request *)

RequestIds == {1}

InitFor(ids) ==
    /\ started = FALSE
    /\ request \in { f \in [ids -> CompanyVerificationRequest(ids)] :
                       \A r \in ids : f[r].registration_id = r }
    /\ pc = [r \in ids |-> "idle"]
    /\ task = [r \in ids |-> [l \in Lookups |-> CreatedTask]]
    /\ web_intel = [r \in ids |-> NoWebIntelligence]
    /\ sentiment = [r \in ids |-> NoSentiment]
    /\ risk_result = [r \in ids |-> NoRiskResult]
    /\ stages = [r \in ids |-> <<>>]
    /\ sent = [r \in ids |-> <<>>]
    /\ classified = [r \in ids |-> <<>>]
    /\ abandoned = [r \in ids |-> FALSE]

Init == InitFor(RequestIds)

Next ==
    \/ Lifespan
    \/ \E r \in DOMAIN pc : VerifyCompany(r)
    \/ \E r \in DOMAIN pc, l \in Lookups : RunLookup(r, l)
    \/ \E r \in DOMAIN pc, l \in Lookups : CompleteIO(r, l)
    \/ \E r \in DOMAIN pc : GatherReturn(r)
    \/ \E r \in DOMAIN pc : AnalyzeSentiment(r)
    \/ \E r \in DOMAIN pc : CalculateRisk(r)
    \/ \E r \in DOMAIN pc : BuildResponse(r)

Spec == Init /\ [][Next]_vars

\* Every step is eventually taken: the event loop runs every ready task, and
\* every HTTP request is answered, fails or times out after 10 seconds, and
\* every call of the model returns or raises.
Fairness ==
    /\ WF_vars(Lifespan)
    /\ \A r \in RequestIds :
          /\ WF_vars(VerifyCompany(r))
          /\ \A l \in Lookups : WF_vars(RunLookup(r, l)) /\ WF_vars(CompleteIO(r, l))
          /\ WF_vars(GatherReturn(r))
          /\ WF_vars(AnalyzeSentiment(r))
          /\ WF_vars(CalculateRisk(r))
          /\ WF_vars(BuildResponse(r))

\* The requests of the fair specification: with and without a company
\* number, a website, a LinkedIn page and a description.
FairRequests(ids) ==
    { q \in CompanyVerificationRequest(ids) :
        /\ q.company_number \in {NoneStr, Some(<<"H", "R", "B", " ", "1">>)}
        /\ q.vat_number = NoneStr
        /\ q.business_description \in {NoneStr, Some(<<"o", "k">>)} }

FairInit ==
    /\ InitFor(RequestIds)
    /\ \A r \in RequestIds : request[r] \in FairRequests(RequestIds)

FairSpec == FairInit /\ [][Next]_vars /\ Fairness

---------------------------------------------------------------------------
(* A caller that disconnects *)

\* The caller of request r disconnects while lookups of r are in flight.
\* verify_company takes no Request object and never asks whether the caller
\* is still there, and nothing cancels the task that runs it: the
\* disconnection changes nothing the pipeline reads.
Abandon(r) ==
    /\ pc[r] = "gathering"
    /\ \E l \in Lookups : task[r][l].status \in {"scheduled", "waiting"}
    /\ ~abandoned[r]
    /\ abandoned' = [abandoned EXCEPT ![r] = TRUE]
    /\ UNCHANGED <<started, request, pc, task, web_intel, sentiment,
                   risk_result, stages, sent, classified>>

AbandonNext ==
    \/ Next
    \/ \E r \in DOMAIN pc : Abandon(r)

AbandonSpec == FairInit /\ [][AbandonNext]_vars

---------------------------------------------------------------------------
(* Two requests in flight at once *)

ConcRequestIds == {1, 2}

\* The requests in flight together: one with a register number and a
\* website, one with a description only, one with no optional field.
ConcRequests(ids) ==
    { q \in CompanyVerificationRequest(ids) :
        /\ q.vat_number = NoneStr /\ q.linkedin_url = NoneStr
        /\ <<q.company_number, q.website_url, q.business_description>> \in
              { <<Some(<<"H", "R", "B", " ", "1">>), Some(<<"w">>), NoneStr>>,
                <<NoneStr, NoneStr, Some(<<"o", "k">>)>>,
                <<NoneStr, NoneStr, NoneStr>> } }

ConcInit ==
    /\ InitFor(ConcRequestIds)
    /\ \A r \in ConcRequestIds : request[r] \in ConcRequests(ConcRequestIds)

\* Each request is handled by its own task of the one event loop, whose
\* steps interleave at the awaits.
ConcSpec == ConcInit /\ [][Next]_vars

---------------------------------------------------------------------------
(* calculate_risk on every input *)

\* The largest news_articles_found the scorer is given.
MaxArticles == 2

FollowerCounts == {NoneInt, Some(0), Some(100), Some(101), Some(MockFollowers)}

WebIntelligences ==
    { [ companies_house_match |-> reg, website_active |-> web,
        website_age |-> IF web THEN Some(UnknownAge) ELSE NoneStr,
        linkedin_verified |-> li[1], linkedin_followers |-> li[2],
        news_articles_found |-> n,
        recent_news_date |-> IF n > 0 THEN Some(1) ELSE NoneInt ] :
      reg \in BOOLEAN, web \in BOOLEAN,
      li \in ({<<FALSE, NoneInt>>} \cup ({TRUE} \X FollowerCounts)),
      n \in 0..MaxArticles }

SentimentAnalyses ==
    { SentimentAnalysis(label, score, sources) :
        label \in {"POSITIVE", "NEUTRAL", "NEGATIVE"},
        score \in {2000, 5000, 8000},
        sources \in { <<>>,
                      <<SentimentSource("Business Description", "NEUTRAL",
                                        NoneInt, NoneInt)>> } }

\* One request for every set of optional fields that are present.
ScorerRequests(ids) ==
    { q \in CompanyVerificationRequest(ids) :
        /\ q.company_number \in {NoneStr, Some(<<"H", "R", "B", " ", "1">>)}
        /\ q.business_description \in {NoneStr, Some(<<"o", "k">>)} }

ScorerInit ==
    /\ started = TRUE
    /\ request \in { f \in [RequestIds -> ScorerRequests(RequestIds)] :
                       \A r \in RequestIds : f[r].registration_id = r }
    /\ pc = [r \in RequestIds |-> "risk"]
    /\ task = [r \in RequestIds |-> [l \in Lookups |-> CreatedTask]]
    /\ web_intel \in [RequestIds -> WebIntelligences]
    /\ sentiment \in [RequestIds -> SentimentAnalyses]
    /\ risk_result = [r \in RequestIds |-> NoRiskResult]
    /\ stages = [r \in RequestIds |-> <<>>]
    /\ sent = [r \in RequestIds |-> <<>>]
    /\ classified = [r \in RequestIds |-> <<>>]
    /\ abandoned = [r \in RequestIds |-> FALSE]

ScorerNext == \E r \in DOMAIN pc : CalculateRisk(r)

ScorerSpec == ScorerInit /\ [][ScorerNext]_vars

---------------------------------------------------------------------------
(* Claims about gather_intelligence and the order of the stages *)

\* gather_intelligence has returned to verify_company for request r.
GatherReturned(r) ==
    \E i \in 1..Len(stages[r]) :
        stages[r][i].stage = "gather" /\ stages[r][i].event = "return"

\* Lookup l of request r ended without a result of its own: it raised,
\* timed out, got a non-success status, or was not attempted.
Defaulted(r, l) ==
    task[r][l].outcome \in {"error", "timeout", "escaped", "404", "absent"}

\* C1: gather_intelligence never fails as a whole.  Whatever the four
\* lookups end with, once all four are done gather_intelligence can return,
\* it never raises, and the WebIntelligence it returns holds, for every
\* lookup that failed or timed out, that lookup's default (register: false;
\* website: not active, no age; LinkedIn: not verified, no followers; news:
\* 0 articles, no date) and, for every lookup that succeeded, its own result.
C1_GatherNeverFails ==
    \A r \in DOMAIN pc :
        /\ \A i \in 1..Len(stages[r]) :
               ~(stages[r][i].stage = "gather" /\ stages[r][i].event = "raise")
        /\ (pc[r] = "gathering" /\ \A l \in Lookups : task[r][l].status = "done")
               => ENABLED GatherReturn(r)
        /\ GatherReturned(r) =>
              LET wi == web_intel[r]
                  t == task[r]
              IN  /\ Defaulted(r, "register") => wi.companies_house_match = FALSE
                  /\ t["register"].outcome = "ok" =>
                        /\ t["register"].result.type = "bool"
                        /\ wi.companies_house_match = t["register"].result.first
                  /\ Defaulted(r, "website") =>
                        wi.website_active = FALSE /\ wi.website_age = NoneStr
                  /\ t["website"].outcome = "200" =>
                        /\ wi.website_active = TRUE
                        /\ wi.website_age = Some(UnknownAge)
                        /\ wi.website_active = t["website"].result.first
                        /\ wi.website_age = t["website"].result.second
                  /\ Defaulted(r, "linkedin") =>
                        wi.linkedin_verified = FALSE /\ wi.linkedin_followers = NoneInt
                  /\ t["linkedin"].outcome = "200" =>
                        /\ wi.linkedin_verified = TRUE
                        /\ wi.linkedin_followers = Some(MockFollowers)
                        /\ wi.linkedin_verified = t["linkedin"].result.first
                        /\ wi.linkedin_followers = t["linkedin"].result.second
                  /\ Defaulted(r, "news") =>
                        wi.news_articles_found = 0 /\ wi.recent_news_date = NoneInt
                  /\ t["news"].outcome = "ok" =>
                        /\ wi.news_articles_found = t["news"].result.first
                        /\ wi.recent_news_date = t["news"].result.second

\* gather_intelligence has returned although the register lookup raised out
\* of its coroutine, the website timed out and the news search failed, and
\* the one lookup that succeeded (LinkedIn) is in the result.
C1_Witness ==
    \E r \in DOMAIN pc :
        /\ GatherReturned(r)
        /\ task[r]["register"].outcome = "escaped"
        /\ task[r]["website"].outcome = "timeout"
        /\ task[r]["news"].outcome = "error"
        /\ task[r]["linkedin"].outcome = "200"
        /\ web_intel[r].linkedin_verified

\* C2: the four lookups are all scheduled before any of them runs; a lookup
\* that is scheduled or waiting can always take its next step, whatever the
\* other three are doing; gather_intelligence returns only once all four are
\* done; and what it returns holds the result of every lookup that returned
\* one.
C2_LookupsConcurrent ==
    \A r \in DOMAIN pc :
        /\ (\E l \in Lookups : task[r][l].status \in {"waiting", "done"})
               => \A l \in Lookups : task[r][l].status # "created"
        /\ pc[r] = "gathering" =>
               \A l \in Lookups :
                   /\ task[r][l].status = "scheduled" => ENABLED RunLookup(r, l)
                   /\ task[r][l].status = "waiting" => ENABLED CompleteIO(r, l)
        /\ (GatherReturned(r) \/ pc[r] \in {"sentiment", "risk", "response"})
               => \A l \in Lookups : task[r][l].status = "done"
        /\ GatherReturned(r) =>
               /\ task[r]["register"].result.type = "bool" =>
                      web_intel[r].companies_house_match = task[r]["register"].result.first
               /\ task[r]["website"].result.type = "tuple" =>
                      /\ web_intel[r].website_active = task[r]["website"].result.first
                      /\ web_intel[r].website_age = task[r]["website"].result.second
               /\ task[r]["linkedin"].result.type = "tuple" =>
                      /\ web_intel[r].linkedin_verified = task[r]["linkedin"].result.first
                      /\ web_intel[r].linkedin_followers = task[r]["linkedin"].result.second
               /\ task[r]["news"].result.type = "tuple" =>
                      /\ web_intel[r].news_articles_found = task[r]["news"].result.first
                      /\ web_intel[r].recent_news_date = task[r]["news"].result.second

\* The website lookup is still waiting for its answer while the news search,
\* started after it, is done, the LinkedIn lookup has failed and the
\* register lookup has not run yet.
C2_Witness ==
    \E r \in DOMAIN pc :
        /\ pc[r] = "gathering"
        /\ task[r]["website"].status = "waiting"
        /\ task[r]["register"].status = "scheduled"
        /\ task[r]["news"].status = "done"
        /\ task[r]["linkedin"].status = "done"
        /\ task[r]["linkedin"].outcome = "error"

\* The stage events of a request that ends with a report, and of one whose
\* sentiment stage raises.
StageOrder ==
    << <<"gather", "call">>, <<"gather", "return">>,
       <<"sentiment", "call">>, <<"sentiment", "return">>,
       <<"risk", "call">>, <<"risk", "return">>,
       <<"response", "return">> >>

StageOrderRaised ==
    << <<"gather", "call">>, <<"gather", "return">>,
       <<"sentiment", "call">>, <<"sentiment", "raise">> >>

StageNames(r) == [i \in 1..Len(stages[r]) |-> <<stages[r][i].stage, stages[r][i].event>>]

IsPrefix(a, b) == Len(a) <= Len(b) /\ \A i \in 1..Len(a) : a[i] = b[i]

\* C3: the stages of verify_company run in strict order (gather, then
\* sentiment, then risk, then the response), each called only after the one
\* before it has returned, and the sentiment and the risk stage are given
\* exactly the WebIntelligence the gather stage of the same request returned,
\* which is also the one in the response.
C3_StagesInOrder ==
    \A r \in DOMAIN pc :
        /\ IsPrefix(StageNames(r), StageOrder) \/ StageNames(r) = StageOrderRaised
        /\ \A i \in 1..Len(stages[r]) :
               (stages[r][i].stage \in {"sentiment", "risk"} /\ stages[r][i].event = "call")
                   => /\ stages[r][2].event = "return"
                      /\ stages[r][i].web_intel = stages[r][2].web_intel
                      /\ stages[r][i].web_intel = WebIntelligence(Results(task[r]))
        /\ \A i \in 1..Len(sent[r]) :
               sent[r][i].kind = "report" =>
                   /\ sent[r][i].body[1].web_intelligence = stages[r][2].web_intel
                   /\ sent[r][i].body[1].registration_id = r

\* A report has been sent after all seven stage events, for a company found
\* in the register with an active website.
C3_Witness ==
    \E r \in DOMAIN pc :
        /\ StageNames(r) = StageOrder
        /\ Len(sent[r]) = 1 /\ sent[r][1].kind = "report"
        /\ stages[r][5].web_intel.companies_house_match
        /\ stages[r][5].web_intel.website_active

---------------------------------------------------------------------------
(* Claims about failures and termination *)

\* Request r has a stage event "raise" at position i.
RaisedAt(r, i) == i \in 1..Len(stages[r]) /\ stages[r][i].event = "raise"

\* C4: if a stage of verify_company raises (the model raising on the
\* description or on the web presence text), the request ends there: the
\* caller is sent exactly one failure, status 500, whose detail is
\* "Verification failed: " and the message, with no body; no later stage
\* runs (no stage event follows, no risk result and no sentiment exist), and
\* a failure is sent only when a stage raised.
C4_RaiseEndsInOneFailure ==
    \A r \in DOMAIN pc :
        /\ \A i \in 1..Len(stages[r]) :
               RaisedAt(r, i) =>
                   /\ i = Len(stages[r])
                   /\ pc[r] = "done"
                   /\ Len(sent[r]) = 1
                   /\ sent[r][1].kind = "failure"
                   /\ sent[r][1].status_code = 500
                   /\ Len(sent[r][1].detail) = 2
                   /\ sent[r][1].detail[1] = "Verification failed: "
                   /\ sent[r][1].detail[2] # ""
                   /\ sent[r][1].body = <<>>
                   /\ risk_result[r] = NoRiskResult
                   /\ sentiment[r] = NoSentiment
        /\ \A j \in 1..Len(sent[r]) :
               sent[r][j].kind = "failure" => RaisedAt(r, Len(stages[r]))

\* The model raised for a request that has a description and a company with
\* a register match and an active website, and the failure has been sent.
C4_Witness ==
    \E r \in DOMAIN pc :
        /\ RaisedAt(r, Len(stages[r]))
        /\ stages[r][Len(stages[r])].stage = "sentiment"
        /\ Len(sent[r]) = 1 /\ sent[r][1].kind = "failure"
        /\ Truthy(request[r].business_description)
        /\ web_intel[r].companies_house_match /\ web_intel[r].website_active

\* C5: every request verify_company has started on ends with exactly one
\* outcome, a report or a failure: it is never sent two, and (every lookup
\* eventually completing, failing or timing out, and every call of the model
\* eventually returning or raising) it is eventually done with one sent.
C5_EveryRequestEnds ==
    \A r \in RequestIds :
        /\ [](Len(sent[r]) <= 1)
        /\ (pc[r] # "idle") ~> (pc[r] = "done" /\ Len(sent[r]) = 1)
        /\ [](pc[r] = "done" => Len(sent[r]) = 1)

\* A request is done with a report as its one outcome, after its website
\* lookup timed out.
C5_Witness ==
    \E r \in DOMAIN pc :
        /\ pc[r] = "done"
        /\ Len(sent[r]) = 1 /\ sent[r][1].kind = "report"
        /\ task[r]["website"].outcome = "timeout"

\* The weight table of the risk score, in hundredths of a point, by what the
\* report says: 25 register, 15 website, 5 LinkedIn, 7 news, 25/7.5/0
\* sentiment, 15 x (1 - k/5) for k <= 2 present fields.
TablePoints(category, wi, label, k) ==
    CASE category = "register" -> IF ~wi.companies_house_match THEN 2500 ELSE 0
      [] category = "website" -> IF ~wi.website_active THEN 1500 ELSE 0
      [] category = "linkedin" -> IF ~wi.linkedin_verified THEN 500 ELSE 0
      [] category = "news" -> IF wi.news_articles_found = 0 THEN 700 ELSE 0
      [] category = "sentiment" ->
            IF label = "NEGATIVE" THEN 2500 ELSE IF label = "NEUTRAL" THEN 750 ELSE 0
      [] category = "completeness" -> IF k <= 2 THEN 300 * (5 - k) ELSE 0

Categories == <<"register", "website", "linkedin", "news", "sentiment", "completeness">>

TableScore(wi, label, k) ==
    Sum([i \in 1..Len(Categories) |-> TablePoints(Categories[i], wi, label, k)])

\* A request field is present when it holds a non-empty value.
Present(x) == x.some /\ x.val # <<>>

PresentFields(req) ==
    Cardinality({ f \in {"company_number", "vat_number", "website_url",
                         "linkedin_url", "business_description"} : Present(req[f]) })

Range(seq) == { seq[i] : i \in 1..Len(seq) }

FlagOf(category) ==
    CASE category = "register" -> "BUSINESS_REGISTER_NOT_FOUND"
      [] category = "website" -> "WEBSITE_UNREACHABLE"
      [] category = "linkedin" -> "NO_LINKEDIN_PRESENCE"
      [] category = "news" -> "NO_WEB_MENTIONS"
      [] category = "sentiment" -> "NEGATIVE_SENTIMENT"
      [] category = "completeness" -> "INCOMPLETE_INFORMATION"

\* Lookup l of request r raised or timed out.
Failed(r, l) == task[r][l].outcome \in {"error", "timeout", "escaped"}

\* C6: a lookup that failed or timed out is never what the caller is told:
\* a failure is sent only because the sentiment stage raised, a request that
\* is done without that has a report, and the report carries the flag of the
\* failed lookup and its points (register 25, website 15, LinkedIn 5, news
\* 7) within a score that is the sum of the weight table.
C6_FailedLookupBecomesRisk ==
    \A r \in DOMAIN pc :
        /\ \A j \in 1..Len(sent[r]) :
               sent[r][j].kind = "failure" =>
                   /\ Len(stages[r]) > 0
                   /\ stages[r][Len(stages[r])].stage = "sentiment"
                   /\ stages[r][Len(stages[r])].event = "raise"
        /\ (pc[r] = "done" /\ ~RaisedAt(r, Len(stages[r]))) =>
               Len(sent[r]) = 1 /\ sent[r][1].kind = "report"
        /\ \A j \in 1..Len(sent[r]) :
               sent[r][j].kind = "report" =>
                   LET b == sent[r][j].body[1]
                       label == b.sentiment_analysis.overall_sentiment
                       k == PresentFields(request[r])
                   IN  /\ b.overall_risk_score = TableScore(b.web_intelligence, label, k)
                       /\ \A l \in Lookups :
                              Failed(r, l) =>
                                  /\ FlagOf(l) \in Range(b.risk_flags)
                                  /\ TablePoints(l, b.web_intelligence, label, k)
                                       = CASE l = "register" -> 2500
                                           [] l = "website" -> 1500
                                           [] l = "linkedin" -> 500
                                           [] l = "news" -> 700

\* A report has been sent for a request all four of whose lookups failed.
C6_Witness ==
    \E r \in DOMAIN pc :
        /\ Len(sent[r]) = 1 /\ sent[r][1].kind = "report"
        /\ task[r]["register"].outcome = "error"
        /\ task[r]["website"].outcome = "timeout"
        /\ task[r]["linkedin"].outcome = "error"
        /\ task[r]["news"].outcome = "escaped"
        /\ { "BUSINESS_REGISTER_NOT_FOUND", "WEBSITE_UNREACHABLE",
             "NO_LINKEDIN_PRESENCE", "NO_WEB_MENTIONS" }
               \subseteq Range(sent[r][1].body[1].risk_flags)

---------------------------------------------------------------------------
(* Claims about calculate_risk *)

\* calculate_risk has returned for request r.
Scored(r) == pc[r] = "response"

\* The rules calculate_risk evaluated for request r.
RulesOf(r) == Rules(web_intel[r], sentiment[r], request[r])

\* C7: the score calculate_risk returns is the sum of the weight table: 25
\* if there is no register match, 15 if the website is not active, 5 if the
\* LinkedIn page is not verified, 7 if no article was found, 25 for NEGATIVE
\* or 7.5 for NEUTRAL sentiment, and 15 x (1 - k/5) when k <= 2 of the five
\* optional fields are present.
C7_ScoreIsTableSum ==
    \A r \in DOMAIN pc :
        Scored(r) =>
            risk_result[r].score =
                TableScore(web_intel[r], sentiment[r].overall_sentiment,
                           PresentFields(request[r]))

\* A score of 68.5: no register match, no website, no LinkedIn page, no
\* article, NEUTRAL sentiment and two of five fields.
C7_Witness ==
    \E r \in DOMAIN pc :
        /\ Scored(r)
        /\ PresentFields(request[r]) = 2
        /\ sentiment[r].overall_sentiment = "NEUTRAL"
        /\ ~web_intel[r].companies_house_match /\ ~web_intel[r].website_active
        /\ ~web_intel[r].linkedin_verified /\ web_intel[r].news_articles_found = 0
        /\ risk_result[r].score = 6850

\* C8: the six weights sum to 100, and on every input the points the six
\* rules add are each at least 0 and sum to at most 100, and the score
\* returned is within [0, 100].
C8_ScoreWithinBounds ==
    /\ WEIGHTS.business_register + WEIGHTS.website + WEIGHTS.linkedin
         + WEIGHTS.news_presence + WEIGHTS.sentiment
         + WEIGHTS.information_completeness = 100
    /\ \A r \in DOMAIN pc :
           Scored(r) =>
               /\ \A i \in 1..Len(RulesOf(r)) : RulesOf(r)[i].points >= 0
               /\ SumPoints(RulesOf(r)) <= 10000
               /\ risk_result[r].score >= 0
               /\ risk_result[r].score <= 10000

\* The largest score, 92: every rule adds its points, sentiment NEGATIVE, no
\* optional field.
C8_Witness ==
    \E r \in DOMAIN pc :
        /\ Scored(r)
        /\ \A i \in 1..Len(RulesOf(r)) : RulesOf(r)[i].points > 0
        /\ risk_result[r].score = 9200

\* The step function of the claim, on a score in hundredths.
StepLevel(score) ==
    IF score <= 3000 THEN "LOW" ELSE IF score <= 6000 THEN "MEDIUM" ELSE "HIGH"

\* C9: the level returned is the step function of the (rounded) score
\* returned: LOW up to 30, MEDIUM above 30 and up to 60, HIGH above 60; and
\* the level of 30 is LOW, of 30.1 MEDIUM, of 60 MEDIUM and of 60.1 HIGH.
C9_LevelIsStepOfScore ==
    /\ RiskLevel(3000) = "LOW" /\ RiskLevel(3010) = "MEDIUM"
    /\ RiskLevel(6000) = "MEDIUM" /\ RiskLevel(6010) = "HIGH"
    /\ \A r \in DOMAIN pc :
           Scored(r) => risk_result[r].level = StepLevel(risk_result[r].score)

\* A score of exactly 30 (no register match, no LinkedIn page) with level LOW.
C9_Witness ==
    \E r \in DOMAIN pc :
        /\ Scored(r)
        /\ risk_result[r].score = 3000
        /\ risk_result[r].level = "LOW"

Occurrences(seq, x) == Cardinality({ i \in 1..Len(seq) : seq[i] = x })

FlagCodes == { FlagOf(Categories[i]) : i \in 1..Len(Categories) }

Triggered(r, i) ==
    IF Categories[i] = "sentiment"
    THEN sentiment[r].overall_sentiment = "NEGATIVE"
    ELSE RulesOf(r)[i].points > 0

---------------------------------------------------------------------------
(* Claims about the confidence *)

\* The four confidence factors of the claim, in 1/10000: 0.9 or 0.5 by the
\* register match, 0.8 or 0.4 by the website, 0.85 or 0.5 by the sentiment
\* sources, and k/5 for k present fields.
ConfidenceFactors(wi, sa, k) ==
    << IF wi.companies_house_match THEN 9000 ELSE 5000,
       IF wi.website_active THEN 8000 ELSE 4000,
       IF sa.sources # <<>> THEN 8500 ELSE 5000,
       2000 * k >>

\* C11: the confidence calculate_risk returns is the unweighted mean of the
\* four factors rounded to two decimals: a whole number of hundredths within
\* half a hundredth of a quarter of the factors' sum, and within [0, 1].
C11_ConfidenceIsMeanOfFour ==
    \A r \in DOMAIN pc :
        Scored(r) =>
            LET f == ConfidenceFactors(web_intel[r], sentiment[r],
                                       PresentFields(request[r]))
                c == risk_result[r].confidence
            IN  /\ Len(f) = 4
                /\ \A i \in 1..Len(f) : f[i] >= 0 /\ f[i] <= 10000
                /\ c % 100 = 0
                /\ 4 * c - Sum(f) < 200
                /\ Sum(f) - 4 * c < 200
                /\ c >= 0 /\ c <= 10000

\* A confidence of 0.64, rounded from (0.9 + 0.4 + 0.85 + 0.4) / 4 = 0.6375:
\* register match, no website, a sentiment source, two of five fields.
C11_Witness ==
    \E r \in DOMAIN pc :
        /\ Scored(r)
        /\ web_intel[r].companies_house_match /\ ~web_intel[r].website_active
        /\ sentiment[r].sources # <<>>
        /\ PresentFields(request[r]) = 2
        /\ risk_result[r].confidence = 6400

---------------------------------------------------------------------------
(* Claims about analyze_company_sentiment *)

\* verify_company has called analyze_company_sentiment for request r.
SentimentCalled(r) ==
    \E i \in 1..Len(stages[r]) :
        stages[r][i].stage = "sentiment" /\ stages[r][i].event = "call"

\* analyze_company_sentiment has returned for request r.
SentimentReturned(r) ==
    \E i \in 1..Len(stages[r]) :
        stages[r][i].stage = "sentiment" /\ stages[r][i].event = "return"

\* C12: with no business description present and a WebIntelligence that
\* does not show both a register match and an active website (so whenever
\* there is no register match), analyze_company_sentiment returns NEUTRAL
\* with score 0.5 and no source, and never calls analyze_text, let alone
\* the model.
C12_NoDataIsNeutral ==
    \A r \in DOMAIN pc :
        ( /\ SentimentCalled(r)
          /\ ~Present(request[r].business_description)
          /\ ~(web_intel[r].companies_house_match /\ web_intel[r].website_active) )
        => /\ SentimentReturned(r)
           /\ sentiment[r].overall_sentiment = "NEUTRAL"
           /\ sentiment[r].sentiment_score = 5000
           /\ sentiment[r].sources = <<>>
           /\ classified[r] = <<>>

\* The no-data case with an active website but no register match, for a
\* request whose description is the empty string.
C12_Witness ==
    \E r \in DOMAIN pc :
        /\ SentimentReturned(r)
        /\ request[r].business_description = Some(<<>>)
        /\ ~web_intel[r].companies_house_match /\ web_intel[r].website_active
        /\ sentiment[r].sources = <<>>
        /\ classified[r] = <<>>

\* The positive-class probabilities collected for request r, in the order
\* of the calls: the model's, or 0.5 from a call that made no inference.
Collected(r) ==
    [ i \in 1..Len(classified[r]) |->
        IF classified[r][i].inferred
        THEN classified[r][i].output.positive ELSE 5000 ]

\* The source names of the sentiment returned for request r.
SourceNames(r) ==
    [ i \in 1..Len(sentiment[r].sources) |-> sentiment[r].sources[i].source ]

\* C13: when at least one probability was collected, the sentiment score
\* returned is their arithmetic mean, the label is POSITIVE for a mean above
\* 0.6, NEGATIVE below 0.4 and NEUTRAL otherwise (0.4 and 0.6 included), and
\* there is one source per probability in the order added, Business
\* Description before Web Presence Analysis.
C13_SentimentIsMean ==
    \A r \in DOMAIN pc :
        (SentimentReturned(r) /\ Len(Collected(r)) >= 1) =>
            LET n == Len(Collected(r))
                total == Sum(Collected(r))
            IN  /\ n * sentiment[r].sentiment_score = total
                /\ sentiment[r].overall_sentiment =
                       IF total > 6000 * n THEN "POSITIVE"
                       ELSE IF total < 4000 * n THEN "NEGATIVE"
                       ELSE "NEUTRAL"
                /\ Len(sentiment[r].sources) = n
                /\ SourceNames(r) \in
                       { <<"Business Description">>, <<"Web Presence Analysis">>,
                         <<"Business Description", "Web Presence Analysis">> }
                /\ ("Business Description" \in Range(SourceNames(r)))
                       = Truthy(request[r].business_description)
                /\ ("Web Presence Analysis" \in Range(SourceNames(r)))
                       = (web_intel[r].companies_house_match
                            /\ web_intel[r].website_active)

\* Two probabilities, 0.8 and 0.4, with mean exactly 0.6: NEUTRAL, with the
\* two sources in the order added.
C13_Witness ==
    \E r \in DOMAIN pc :
        /\ SentimentReturned(r)
        /\ Collected(r) = <<8000, 4000>>
        /\ sentiment[r].sentiment_score = 6000
        /\ sentiment[r].overall_sentiment = "NEUTRAL"
        /\ SourceNames(r) = <<"Business Description", "Web Presence Analysis">>

---------------------------------------------------------------------------
(* Claims about the report *)

\* A report has been sent for request r.
Reported(r) == Len(sent[r]) = 1 /\ sent[r][1].kind = "report"

\* The body of the report sent for request r.
ReportOf(r) == sent[r][1].body[1]

\* Scenario A: a request with no optional field, whose four signals are at
\* their defaults.
ScenarioA(r) ==
    /\ PresentFields(request[r]) = 0
    /\ ~ReportOf(r).web_intelligence.companies_house_match
    /\ ~ReportOf(r).web_intelligence.website_active
    /\ ~ReportOf(r).web_intelligence.linkedin_verified
    /\ ReportOf(r).web_intelligence.news_articles_found = 0

---------------------------------------------------------------------------
(* Claims about requests in flight together *)

\* What the model answered to the i-th analyze_text call made for request r.
OutputAt(r, i) ==
    IF i <= Len(classified[r]) THEN classified[r][i].output ELSE NoOutput

\* What the caller of request r is sent when r is processed alone, with the
\* lookup outcomes and the model answers that r had.
AloneOutcome(r) ==
    LET req == request[r]
        wi == WebIntelligence(
                  [l \in Lookups |-> LookupResult(l, req, task[r][l].outcome)])
        described == Truthy(req.business_description)
        out1 == IF described THEN OutputAt(r, 1) ELSE NoOutput
        out2 == IF described THEN OutputAt(r, 2) ELSE OutputAt(r, 1)
        sa == analyze_company_sentiment(req.company_name, req.business_description,
                                        wi, out1, out2)
    IN  IF sa.raised THEN Failure("inference error")
        ELSE Report(CompanyVerificationResponse(req, calculate_risk(wi, sa, req),
                                                wi, sa))

\* Everything the handling of request r reads and writes.
LocalState(r) ==
    << request[r], pc[r], task[r], web_intel[r], sentiment[r], risk_result[r],
       stages[r], sent[r], classified[r], abandoned[r] >>

\* A step changes the state of at most one request, and the shared services
\* only before any request is handled.
StepIsLocal ==
    /\ \A r, q \in DOMAIN pc :
           (r # q /\ LocalState(r)' # LocalState(r)) => LocalState(q)' = LocalState(q)
    /\ started' # started =>
           /\ \A r \in DOMAIN pc : pc[r] = "idle"
           /\ \A r \in DOMAIN pc : LocalState(r)' = LocalState(r)

\* C15: whatever the interleaving of the steps of two requests in flight,
\* each request is sent what it is sent when processed alone with the same
\* lookup outcomes and model answers (identifier, web intelligence,
\* sentiment, score, level, flags, recommendations, confidence), and no
\* step of one request changes state of another request or state the
\* requests share.
C15_RequestsIndependent ==
    /\ [](\A r \in DOMAIN pc : pc[r] = "done" => sent[r] = <<AloneOutcome(r)>>)
    /\ [][StepIsLocal]_vars

\* Request 1 has its report and request 2, in flight with other signals and
\* another sentiment, has its own.
C15_Witness ==
    /\ DOMAIN pc = {1, 2}
    /\ Reported(1) /\ Reported(2)
    /\ ReportOf(1).web_intelligence.companies_house_match
    /\ ReportOf(1).web_intelligence.website_active
    /\ ~ReportOf(2).web_intelligence.companies_house_match
    /\ Len(ReportOf(1).sentiment_analysis.sources) = 1
    /\ Len(ReportOf(2).sentiment_analysis.sources) = 1
    /\ ReportOf(1).risk_flags # ReportOf(2).risk_flags

---------------------------------------------------------------------------
(* Claims about a caller that disconnects *)

\* C16: once the caller has abandoned a request whose lookups were in
\* flight, no lookup of that request that had not settled runs to
\* completion, and no later stage (sentiment, scoring, report) of the
\* request is executed.
C16_AbandonCancelsLookups ==
    [][ \A r \in DOMAIN pc :
            abandoned[r] =>
                /\ \A l \in Lookups :
                       task[r][l].status # "done" => task'[r][l].status # "done"
                /\ pc[r] = "gathering" => pc'[r] = "gathering"
                /\ stages'[r] = stages[r]
                /\ sent'[r] = sent[r] ]_vars

---------------------------------------------------------------------------
(* Claims about the recommendations *)

\* The tone of a recommendation: cautionary for a warning and for the note
\* that no news was found, positive for a check mark and for the note that
\* a LinkedIn page was found, informational for any other note.
Tone(rec) ==
    CASE rec.mark = "warn" -> "cautionary"
      [] rec.mark = "ok" -> "positive"
      [] rec.mark = "info"
           /\ rec.text = "No news articles found (may be new company)" -> "cautionary"
      [] rec.mark = "info"
           /\ rec.text = "LinkedIn page found (limited followers)" -> "positive"
      [] OTHER -> "informational"

\* The recommendation texts of each category.
TextsOf(category) ==
    CASE category = "register" ->
            { "Company not found in business register",
              "Company verified in official business register" }
      [] category = "website" ->
            { "Website URL is not accessible", "Active website found" }
      [] category = "linkedin" ->
            { "No LinkedIn company page found", "LinkedIn page with followers",
              "LinkedIn page found (limited followers)" }
      [] category = "news" ->
            { "No news articles found (may be new company)", "Found news articles" }
      [] category = "sentiment" ->
            { "Negative sentiment detected", "Neutral sentiment",
              "Positive sentiment detected" }
      [] category = "completeness" ->
            { "Limited information provided", "Complete information provided" }

\* The summary that matches a level.
SummaryOf(level) ==
    CASE level = "HIGH" -> "RECOMMEND MANUAL VERIFICATION"
      [] level = "MEDIUM" -> "Review carefully before approval"
      [] level = "LOW" -> "Low risk - likely legitimate company"

---------------------------------------------------------------------------
(* Claims about the sentiment sources and the flags of one report *)

\* The source names of the sentiment in the report of request r.
ReportSources(r) ==
    { ReportOf(r).sentiment_analysis.sources[i].source :
        i \in 1..Len(ReportOf(r).sentiment_analysis.sources) }

\* C18: a report has a Web Presence Analysis source exactly when its flags
\* contain neither BUSINESS_REGISTER_NOT_FOUND nor WEBSITE_UNREACHABLE; so
\* a report with one of these flags, for a request without a description,
\* has no source, NEUTRAL sentiment, no NEGATIVE_SENTIMENT flag, and a
\* confidence whose sentiment factor is 0.5.
C18_WebPresenceIffNoFlags ==
    \A r \in DOMAIN pc :
        Reported(r) =>
            LET b == ReportOf(r)
                flags == Range(b.risk_flags)
                flagged == "BUSINESS_REGISTER_NOT_FOUND" \in flags
                             \/ "WEBSITE_UNREACHABLE" \in flags
                others ==
                    (IF b.web_intelligence.companies_house_match THEN 9000 ELSE 5000)
                      + (IF b.web_intelligence.website_active THEN 8000 ELSE 4000)
                      + 2000 * PresentFields(request[r])
            IN  /\ ("Web Presence Analysis" \in ReportSources(r)) = ~flagged
                /\ (flagged /\ ~Present(request[r].business_description)) =>
                       /\ b.sentiment_analysis.sources = <<>>
                       /\ b.sentiment_analysis.overall_sentiment = "NEUTRAL"
                       /\ "NEGATIVE_SENTIMENT" \notin flags
                       /\ 4 * b.confidence - (others + 5000) < 200
                       /\ (others + 5000) - 4 * b.confidence < 200

\* A report for a request without a description whose register lookup
\* matched and whose website timed out: WEBSITE_UNREACHABLE and no source.
C18_Witness ==
    \E r \in DOMAIN pc :
        /\ Reported(r)
        /\ request[r].business_description = NoneStr
        /\ ReportOf(r).web_intelligence.companies_house_match
        /\ task[r]["website"].outcome = "timeout"
        /\ "WEBSITE_UNREACHABLE" \in Range(ReportOf(r).risk_flags)
        /\ "BUSINESS_REGISTER_NOT_FOUND" \notin Range(ReportOf(r).risk_flags)
        /\ ReportOf(r).sentiment_analysis.sources = <<>>

=============================================================================
